---- MODULE Spec2Model ----
(***************************************************************************)
(* Model of scripts/generate_project_dna.py: build_payload, which formats  *)
(* a folder label and a list of file records into one text block, and      *)
(* generate_project_dna, which sends that block to a text-generation       *)
(* service and returns the first text segment of the answer.               *)
(*                                                                         *)
(* Python strings are TLA+ strings; a FileData dict is a record; the list  *)
(* of files is a sequence.  Each action is one statement of the source,    *)
(* named after the line it models.                                         *)
(***************************************************************************)
EXTENDS Integers, Sequences, FiniteSets, TLC

\* ------------------------------------------------------------------ bounds

\* Longest list of files a caller passes.
MaxFiles == 2

\* --------------------------------------------------------- program constants

\* The slice bound of line 26, f["content"][:1000].
ExcerptLimit == 1000

\* The default of the keyword parameter model (line 42).
DefaultModel == "gpt-4.1-mini"

\* The default of the keyword parameter temperature (line 43), 0.3, in tenths.
DefaultTemperature == 3

\* ------------------------------------------------------------------ inputs

\* s repeated n times.
RECURSIVE Rep(_, _)
Rep(s, n) ==
    IF n = 0 THEN ""
    ELSE IF n % 2 = 1 THEN s \o Rep(s, n - 1)
    ELSE LET h == Rep(s, n \div 2) IN h \o h

\* Contents of 1000 and of 1001 characters whose first and last characters
\* differ, so that a prefix, a suffix and the whole are three different strings.
Content1000 == "c" \o Rep("d", ExcerptLimit - 2) \o "e"
Content1001 == "A" \o Rep("b", ExcerptLimit - 2) \o "YZ"

\* The file records callers pass (class FileData): the spec's example, a
\* record of empty strings, one at the slice bound and one past it.
Records ==
    { [name |-> "budget.xlsx", date |-> "2025-12-01", content |-> "Q4 numbers..."],
      [name |-> "", date |-> "", content |-> ""],
      [name |-> "notes.md", date |-> "2025-12-02", content |-> Content1000],
      [name |-> "big.log", date |-> "2025-12-03", content |-> Content1001] }

\* The lists of files callers pass: every order, repetitions included.
FileLists == UNION { [1..n -> Records] : n \in 0..MaxFiles }

Labels == {"", "Budget Reports"}

SystemPrompts == {"", "You are an expert project analyst"}

\* A keyword argument the caller leaves out, and one it passes.
NotGiven == [given |-> FALSE]
Given(v) == [given |-> TRUE, value |-> v]

\* What the caller writes for model= and for temperature= (in tenths).
ModelArgs == {NotGiven, Given("gpt-4o")}
TemperatureArgs == {NotGiven, Given(10)}

\* Response objects of the service: response.output is a list of items, an
\* item's content is a list of segments, a segment has a text.
Seg(t) == [text |-> t]
Item(segs) == [content |-> segs]
Responses ==
    { [output |-> <<>>],
      [output |-> <<Item(<<>>)>>],
      [output |-> <<Item(<<Seg("# Brief")>>)>>],
      [output |-> <<Item(<<Seg("")>>)>>],
      [output |-> <<Item(<<Seg("# Brief"), Seg("more")>>), Item(<<Seg("other")>>)>>],
      [output |-> <<Item(<<>>), Item(<<Seg("late")>>)>>] }

\* Errors client.responses.create raises: network, authentication, malformed
\* response.
RequestErrors == {"APIConnectionError", "AuthenticationError", "APIResponseValidationError"}

\* ------------------------------------------------------------------- state

VARIABLES
    pc,                  \* the statement the running function executes next
    stack,               \* the call stack, innermost function last
    folder_name,         \* argument folder_name of both functions
    files,               \* the caller's list of files (files_data / files)
    system_prompt_text,  \* argument system_prompt_text
    model,               \* parameter model, after the default is applied
    temperature,         \* parameter temperature, after the default is applied
    given,               \* what the caller wrote for model= and temperature=
    sections,            \* build_payload's local sections
    it,                  \* how many items the for loop's iterator has yielded
    f,                   \* build_payload's loop variable f
    excerpt,             \* build_payload's local excerpt
    client,              \* generate_project_dna's local client
    data_payload,        \* generate_project_dna's local data_payload
    requests,            \* the requests this invocation has issued to the service
    reply,               \* what the service did with the request
    response,            \* generate_project_dna's local response
    message,             \* generate_project_dna's local message
    outcome,             \* how the call ended, as the caller sees it
    prev                 \* the caller's note of the call before this one

vars ==
    << pc, stack, folder_name, files, system_prompt_text, model, temperature, given,
       sections, it, f, excerpt, client, data_payload, requests, reply, response, message,
       outcome, prev >>

args == << folder_name, files, system_prompt_text, model, temperature, given >>
bp_locals == << sections, it, f, excerpt >>
gen_locals == << client, data_payload, response, message >>

\* A local variable no statement has bound yet.
Unbound == [unbound |-> TRUE]

NoOutcome == [kind |-> "none"]
Returned(v) == [kind |-> "returned", value |-> v]
Raised(e, line) == [kind |-> "raised", error |-> e, line |-> line]

NoReply == [kind |-> "none"]
NoCall == [kind |-> "none"]

\* --------------------------------------------------------------- functions

SliceSuffix(s, n) == SubSeq(s, (IF n < Len(s) THEN Len(s) - n ELSE 0) + 1, Len(s))

\* s[:n] for n >= 0.
Slice(s, n) == SubSeq(s, 1, IF n < Len(s) THEN n ELSE Len(s))

\* sep.join(secs).
RECURSIVE Join(_, _)
Join(sep, secs) ==
    IF secs = <<>> THEN ""
    ELSE IF Len(secs) = 1 THEN secs[1]
    ELSE secs[1] \o sep \o Join(sep, Tail(secs))

HeaderWithoutNewline(label) == "I need a Project DNA Brief for: " \o label

\* The f-string of line 24.
Header(label) == "I need a Project DNA Brief for: " \o label \o "\n"

BlockWithoutBlankLine(file, exc) ==
    "---\n[FILE]\n"
        \o "Name: " \o file.name \o "\n"
        \o "Date: " \o file.date \o "\n"
        \o "Excerpt: " \o exc \o "\n"

\* The implicitly concatenated string of lines 28-31.
Block(file, exc) ==
    "---\n[FILE]\n"
        \o "Name: " \o file.name \o "\n"
        \o "Date: " \o file.date \o "\n"
        \o "Excerpt: " \o exc \o "\n\n"

\* ------------------------------------------------------------------ caller

Init ==
    /\ pc = "idle"
    /\ stack = <<>>
    /\ folder_name = ""
    /\ files = <<>>
    /\ system_prompt_text = ""
    /\ model = DefaultModel
    /\ temperature = DefaultTemperature
    /\ given = [model |-> NotGiven, temperature |-> NotGiven]
    /\ sections = <<>>
    /\ it = 0
    /\ f = Unbound
    /\ excerpt = ""
    /\ client = "unbound"
    /\ data_payload = ""
    /\ requests = <<>>
    /\ reply = NoReply
    /\ response = Unbound
    /\ message = ""
    /\ outcome = NoOutcome
    /\ prev = NoCall

\* The call has ended and the caller has taken its outcome: the parameters
\* are unbound again and the service has nothing in flight.
BackToIdle ==
    /\ pc' = "idle"
    /\ folder_name' = ""
    /\ files' = <<>>
    /\ system_prompt_text' = ""
    /\ model' = DefaultModel
    /\ temperature' = DefaultTemperature
    /\ given' = [model |-> NotGiven, temperature |-> NotGiven]
    /\ requests' = <<>>
    /\ reply' = NoReply
    /\ outcome' = NoOutcome
    /\ UNCHANGED << stack, bp_locals, gen_locals >>

\* The caller calls build_payload(label, list).
CallBuildPayload ==
    /\ pc = "idle"
    /\ \E label \in Labels, list \in FileLists :
        /\ folder_name' = label
        /\ files' = list
    /\ stack' = <<"build_payload">>
    /\ pc' = "bp_24"
    /\ UNCHANGED << system_prompt_text, model, temperature, given, bp_locals,
                    gen_locals, requests, reply, outcome, prev >>

\* The caller of build_payload notes the arguments and the payload it got.
CallerNotesPayload ==
    /\ pc = "done"
    /\ outcome.kind = "returned"
    /\ prev' = [kind |-> "build_payload", folder_name |-> folder_name, files |-> files,
                payload |-> outcome.value]
    /\ BackToIdle

\* The caller calls generate_project_dna(label, list, prompt, model=, temperature=).
CallGenerate ==
    /\ pc = "idle"
    /\ \E label \in Labels, list \in FileLists, prompt \in SystemPrompts,
          m \in ModelArgs, t \in TemperatureArgs :
        /\ folder_name' = label
        /\ files' = list
        /\ system_prompt_text' = prompt
        /\ given' = [model |-> m, temperature |-> t]
        /\ model' = IF m.given THEN m.value ELSE DefaultModel
        /\ temperature' = IF t.given THEN t.value ELSE DefaultTemperature
    /\ stack' = <<"generate_project_dna">>
    /\ pc' = "gen_56"
    /\ UNCHANGED << bp_locals, gen_locals, requests, reply, outcome, prev >>

\* The caller of generate_project_dna notes how the invocation ended.
CallerNotesOutcome ==
    /\ pc = "done"
    /\ prev' = [kind |-> "generate_project_dna", outcome |-> outcome.kind]
    /\ BackToIdle

\* ------------------------------------------------------------ build_payload

\* Line 24: sections = [f"I need a Project DNA Brief for: {folder_name}\n"]
Line24 ==
    /\ pc = "bp_24"
    /\ sections' = << Header(folder_name) >>
    /\ pc' = "bp_25"
    /\ UNCHANGED << stack, args, it, f, excerpt, gen_locals, requests, reply,
                    outcome, prev >>

Line25NextDedup ==
    /\ pc = "bp_25"
    /\ it < Len(files)
    /\ it' = it + 1
    /\ IF \E j \in 1..it : files[j] = files[it + 1]
       THEN pc' = "bp_25" /\ f' = f
       ELSE pc' = "bp_26" /\ f' = files[it + 1]
    /\ UNCHANGED << stack, args, sections, excerpt, gen_locals, requests, reply,
                    outcome, prev >>

\* Line 25: for f in files, with another item to yield.
Line25Next ==
    /\ pc = "bp_25"
    /\ it < Len(files)
    /\ f' = files[it + 1]
    /\ it' = it + 1
    /\ pc' = "bp_26"
    /\ UNCHANGED << stack, args, sections, excerpt, gen_locals, requests, reply,
                    outcome, prev >>

\* Line 25: for f in files, exhausted.
Line25Done ==
    /\ pc = "bp_25"
    /\ it >= Len(files)
    /\ pc' = "bp_34"
    /\ UNCHANGED << stack, args, bp_locals, gen_locals, requests, reply, outcome, prev >>

Line26InPlace ==
    /\ pc = "bp_26"
    /\ excerpt' = Slice(f.content, ExcerptLimit)
    /\ files' = [files EXCEPT ![it].content = Slice(f.content, ExcerptLimit)]
    /\ pc' = "bp_27"
    /\ UNCHANGED << stack, folder_name, system_prompt_text, model, temperature, given,
                    sections, it, f, gen_locals, requests, reply, outcome, prev >>

\* Line 26: excerpt = f["content"][:1000]
Line26 ==
    /\ pc = "bp_26"
    /\ excerpt' = Slice(f.content, ExcerptLimit)
    /\ pc' = "bp_27"
    /\ UNCHANGED << stack, args, sections, it, f, gen_locals, requests, reply,
                    outcome, prev >>

\* Lines 27-32: sections.append(...)
Line27 ==
    /\ pc = "bp_27"
    /\ sections' = Append(sections, Block(f, excerpt))
    /\ pc' = "bp_25"
    /\ UNCHANGED << stack, args, it, f, excerpt, gen_locals, requests, reply,
                    outcome, prev >>

\* The frame of build_payload is dropped when it returns.
DropBuildFrame ==
    /\ sections' = <<>>
    /\ it' = 0
    /\ f' = Unbound
    /\ excerpt' = ""

Line34ToCallerUnordered ==
    /\ pc = "bp_34"
    /\ stack = <<"build_payload">>
    /\ \E p \in Permutations(1..Len(sections)) :
        outcome' = Returned(Join("", [i \in 1..Len(sections) |-> sections[p[i]]]))
    /\ stack' = <<>>
    /\ pc' = "done"
    /\ DropBuildFrame
    /\ UNCHANGED << args, gen_locals, requests, reply, prev >>

\* Line 34: return "".join(sections), to a caller that called build_payload.
Line34ToCaller ==
    /\ pc = "bp_34"
    /\ stack = <<"build_payload">>
    /\ outcome' = Returned(Join("", sections))
    /\ stack' = <<>>
    /\ pc' = "done"
    /\ DropBuildFrame
    /\ UNCHANGED << args, gen_locals, requests, reply, prev >>

NextBuild ==
    \/ CallBuildPayload
    \/ Line24
    \/ Line25Next
    \/ Line25Done
    \/ Line26
    \/ Line27
    \/ Line34ToCaller
    \/ CallerNotesPayload

SpecBuild == Init /\ [][NextBuild]_vars

\* ----------------------------------------------------- generate_project_dna

RequestUserFirst(m, sys, payload, temp) ==
    [ model |-> m,
      input |-> << [role |-> "user", content |-> payload],
                   [role |-> "system", content |-> sys] >>,
      temperature |-> temp ]

\* The keyword arguments of client.responses.create (lines 60-65).
Request(m, sys, payload, temp) ==
    [ model |-> m,
      input |-> << [role |-> "system", content |-> sys],
                   [role |-> "user", content |-> payload] >>,
      temperature |-> temp ]

\* The frame of generate_project_dna is dropped when it returns or raises.
DropGenerateFrame ==
    /\ client' = "unbound"
    /\ data_payload' = ""
    /\ response' = Unbound
    /\ message' = ""

\* Line 56: client = OpenAI()
Line56 ==
    /\ pc = "gen_56"
    /\ client' = "ready"
    /\ pc' = "gen_57"
    /\ UNCHANGED << stack, args, bp_locals, data_payload, response, message,
                    requests, reply, outcome, prev >>

\* Line 56: OpenAI() raises (the external client finds no credentials); the
\* error leaves generate_project_dna, which has no handler.
Line56Raises ==
    /\ pc = "gen_56"
    /\ outcome' = Raised("OpenAIError", 56)
    /\ stack' = <<>>
    /\ pc' = "done"
    /\ DropGenerateFrame
    /\ UNCHANGED << args, bp_locals, requests, reply, prev >>

\* Line 57: data_payload = build_payload(folder_name, files_data), the call.
Line57 ==
    /\ pc = "gen_57"
    /\ stack' = Append(stack, "build_payload")
    /\ pc' = "bp_24"
    /\ UNCHANGED << args, bp_locals, gen_locals, requests, reply, outcome, prev >>

\* Line 34: return "".join(sections), to line 57 of generate_project_dna.
Line34ToGenerate ==
    /\ pc = "bp_34"
    /\ stack = <<"generate_project_dna", "build_payload">>
    /\ data_payload' = Join("", sections)
    /\ stack' = <<"generate_project_dna">>
    /\ pc' = "gen_59"
    /\ DropBuildFrame
    /\ UNCHANGED << args, client, response, message, requests, reply, outcome, prev >>

\* Lines 59-66: client.responses.create(...), the request leaves.
Line59 ==
    /\ pc = "gen_59"
    /\ requests' = Append(requests,
                          Request(model, system_prompt_text, data_payload, temperature))
    /\ pc' = "gen_59_wait"
    /\ UNCHANGED << stack, args, bp_locals, gen_locals, reply, outcome, prev >>

\* Lines 59-66: client.responses.create returns a response object.
Line59Returns ==
    /\ pc = "gen_59_wait"
    /\ \E r \in Responses :
        /\ reply' = [kind |-> "response", body |-> r]
        /\ response' = r
    /\ pc' = "gen_68"
    /\ UNCHANGED << stack, args, bp_locals, client, data_payload, message, requests,
                    outcome, prev >>

Line59Retries ==
    /\ pc = "gen_59_wait"
    /\ \E e \in RequestErrors : reply' = [kind |-> "error", error |-> e]
    /\ pc' = "gen_59"
    /\ UNCHANGED << stack, args, bp_locals, gen_locals, requests, outcome, prev >>

\* Lines 59-66: client.responses.create raises; the error leaves
\* generate_project_dna, which has no handler.
Line59Raises ==
    /\ pc = "gen_59_wait"
    /\ \E e \in RequestErrors :
        /\ reply' = [kind |-> "error", error |-> e]
        /\ outcome' = Raised(e, 59)
    /\ stack' = <<>>
    /\ pc' = "done"
    /\ DropGenerateFrame
    /\ UNCHANGED << args, bp_locals, requests, prev >>

Line68LastSegment ==
    /\ pc = "gen_68"
    /\ response.output # <<>>
    /\ response.output[1].content # <<>>
    /\ message' = response.output[1].content[Len(response.output[1].content)].text
    /\ pc' = "gen_69"
    /\ UNCHANGED << stack, args, bp_locals, client, data_payload, response, requests,
                    reply, outcome, prev >>

\* Line 68: message = response.output[0].content[0].text
Line68 ==
    /\ pc = "gen_68"
    /\ response.output # <<>>
    /\ response.output[1].content # <<>>
    /\ message' = response.output[1].content[1].text
    /\ pc' = "gen_69"
    /\ UNCHANGED << stack, args, bp_locals, client, data_payload, response, requests,
                    reply, outcome, prev >>

Line68Default ==
    /\ pc = "gen_68"
    /\ \/ response.output = <<>>
       \/ /\ response.output # <<>>
          /\ response.output[1].content = <<>>
    /\ message' = ""
    /\ pc' = "gen_69"
    /\ UNCHANGED << stack, args, bp_locals, client, data_payload, response, requests,
                    reply, outcome, prev >>

\* Line 68: one of the two [0] is out of range; IndexError leaves
\* generate_project_dna, which has no handler.
Line68Raises ==
    /\ pc = "gen_68"
    /\ \/ response.output = <<>>
       \/ /\ response.output # <<>>
          /\ response.output[1].content = <<>>
    /\ outcome' = Raised("IndexError", 68)
    /\ stack' = <<>>
    /\ pc' = "done"
    /\ DropGenerateFrame
    /\ UNCHANGED << args, bp_locals, requests, reply, prev >>

\* Line 69: return message
Line69 ==
    /\ pc = "gen_69"
    /\ outcome' = Returned(message)
    /\ stack' = <<>>
    /\ pc' = "done"
    /\ DropGenerateFrame
    /\ UNCHANGED << args, bp_locals, requests, reply, prev >>

Next ==
    \/ CallGenerate
    \/ Line56
    \/ Line56Raises
    \/ Line57
    \/ Line24
    \/ Line25Next
    \/ Line25Done
    \/ Line26
    \/ Line27
    \/ Line34ToGenerate
    \/ Line59
    \/ Line59Returns
    \/ Line59Raises
    \/ Line68
    \/ Line68Raises
    \/ Line69
    \/ CallerNotesOutcome

Spec == Init /\ [][Next]_vars

\* ================================================================== claims

\* The call has ended and its outcome is with the caller.
Done == pc = "done"

\* The excerpt the specification asks for: the content as it is when it has at
\* most 1000 characters, its first 1000 characters otherwise.
ExpectedExcerpt(content) ==
    IF Len(content) <= 1000 THEN content ELSE SubSeq(content, 1, 1000)

\* The block the specification asks for: the separator line, the [FILE] line,
\* the Name, Date and Excerpt lines, and the blank line that ends the block.
ExpectedBlock(r) ==
    "---\n" \o "[FILE]\n" \o "Name: " \o r.name \o "\n" \o "Date: " \o r.date \o "\n"
        \o "Excerpt: " \o ExpectedExcerpt(r.content) \o "\n" \o "\n"

RECURSIVE ExpectedBlocks(_)
ExpectedBlocks(list) ==
    IF list = <<>> THEN "" ELSE ExpectedBlock(Head(list)) \o ExpectedBlocks(Tail(list))

ExpectedPayload(label, list) ==
    "I need a Project DNA Brief for: " \o label \o "\n" \o ExpectedBlocks(list)

\* ---------------------------------------------------------------------- C1
\* C1: for every label and every list of records, build_payload returns the
\* header followed by one block per record and nothing else.
C1_PayloadIsHeaderThenBlocks ==
    (Done /\ outcome.kind = "returned")
        => outcome.value = ExpectedPayload(folder_name, files)

\* A call with two different records, one of them longer than the excerpt, has returned.
C1_Witness ==
    /\ Done
    /\ outcome.kind = "returned"
    /\ folder_name = "Budget Reports"
    /\ Len(files) = 2
    /\ files[1].content = Content1001
    /\ files[2].name = "budget.xlsx"

\* ---------------------------------------------------------------------- C2
\* C2: for any label and an empty list of files, build_payload returns exactly
\* the header line for that label, with no block after it.
C2_EmptyListGivesHeaderOnly ==
    (Done /\ outcome.kind = "returned" /\ files = <<>>)
        => outcome.value = "I need a Project DNA Brief for: " \o folder_name \o "\n"

\* A call with a label and no files has returned.
C2_Witness ==
    /\ Done
    /\ outcome.kind = "returned"
    /\ files = <<>>
    /\ folder_name = "Budget Reports"

\* ---------------------------------------------------------------------- C3
\* The characters of a block before its excerpt: the separator and [FILE]
\* lines, the Name and Date lines and the "Excerpt: " label.
PrefixLen(r) ==
    Len("---\n[FILE]\nName: ") + Len(r.name) + Len("\nDate: ") + Len(r.date)
        + Len("\nExcerpt: ")

\* The excerpt written in a block of record r: what stands between the
\* "Excerpt: " label and the two newlines that end the block.
WrittenExcerpt(block, r) == SubSeq(block, PrefixLen(r) + 1, Len(block) - 2)

\* C3: the excerpt written in the block of each record is the content
\* unmodified when it has at most 1000 characters and its first 1000
\* characters when it has more; nothing is added to it and it never exceeds
\* 1000 characters.
C3_ExcerptIsFirst1000 ==
    \A i \in 1..(Len(sections) - 1) :
        LET c == files[i].content
            e == WrittenExcerpt(sections[i + 1], files[i])
        IN  /\ Len(sections[i + 1]) = PrefixLen(files[i]) + Len(e) + 2
            /\ Len(c) <= 1000 => e = c
            /\ Len(c) > 1000 => (Len(e) = 1000 /\ e = SubSeq(c, 1, 1000))
            /\ Len(e) <= 1000

\* The blocks of a record of exactly 1000 characters and of one of 1001 are written.
C3_Witness ==
    /\ pc = "bp_25"
    /\ Len(sections) = 3
    /\ files[1].content = Content1000
    /\ files[2].content = Content1001

\* ---------------------------------------------------------------------- C4
\* Where the block of the i-th record starts in the payload, less one.
RECURSIVE Offset(_, _, _)
Offset(label, list, i) ==
    IF i = 1 THEN Len("I need a Project DNA Brief for: ") + Len(label) + 1
    ELSE Offset(label, list, i - 1) + Len(ExpectedBlock(list[i - 1]))

\* C4: for a list of n records the payload holds exactly n blocks and the
\* i-th block is the one of the i-th record, equal records included.
C4_OneBlockPerRecordInOrder ==
    /\ pc = "bp_34" =>
        /\ Len(sections) = Len(files) + 1
        /\ \A i \in 1..Len(files) : sections[i + 1] = ExpectedBlock(files[i])
    /\ (Done /\ outcome.kind = "returned") =>
        /\ Len(outcome.value) = Offset(folder_name, files, Len(files) + 1)
        /\ \A i \in 1..Len(files) :
            SubSeq(outcome.value, Offset(folder_name, files, i) + 1,
                   Offset(folder_name, files, i + 1)) = ExpectedBlock(files[i])

\* A call with the same record twice has returned.
C4_Witness ==
    /\ Done
    /\ outcome.kind = "returned"
    /\ Len(files) = 2
    /\ files[1] = files[2]
    /\ files[1].name = "budget.xlsx"

\* ---------------------------------------------------------------------- C5
\* C5: two calls of build_payload with the same label and the same list of
\* records return the same payload, whatever calls came before them.
C5_SameInputsSamePayload ==
    ( /\ Done
      /\ outcome.kind = "returned"
      /\ prev.kind = "build_payload"
      /\ prev.folder_name = folder_name
      /\ prev.files = files )
        => outcome.value = prev.payload

\* Two calls in a row with the same label and the same two records have returned.
C5_Witness ==
    /\ Done
    /\ outcome.kind = "returned"
    /\ prev.kind = "build_payload"
    /\ prev.folder_name = folder_name
    /\ prev.files = files
    /\ Len(files) = 2
    /\ files[1] # files[2]

\* ---------------------------------------------------------------------- C6
\* The model and temperature the caller supplies: what it wrote, or the
\* parameter's default when it wrote nothing.
SuppliedModel == IF given.model.given THEN given.model.value ELSE "gpt-4.1-mini"
SuppliedTemperature == IF given.temperature.given THEN given.temperature.value ELSE 3

\* The request the specification asks for: two messages, system then user.
ExpectedRequest ==
    [ model |-> SuppliedModel,
      input |-> << [role |-> "system", content |-> system_prompt_text],
                   [role |-> "user", content |-> ExpectedPayload(folder_name, files)] >>,
      temperature |-> SuppliedTemperature ]

\* The invocation ended at line 56: OpenAI() raised.
ClientFailed == Done /\ outcome.kind = "raised" /\ outcome.line = 56

\* C6 as stated: each invocation of generate_project_dna issues exactly one
\* request, with the system message, the user message, the model and the
\* temperature of the call.
C6_EveryInvocationIssuesOneRequest ==
    Done => (Len(requests) = 1 /\ requests[1] = ExpectedRequest)

\* C6 as amended: an invocation in which OpenAI() returns a client issues
\* exactly one request, with the system message, the user message, the model
\* and the temperature of the call; an invocation in which OpenAI() raises
\* issues none.
C6_OneRequestOnceClientIsBuilt ==
    /\ pc \in {"gen_59_wait", "gen_68", "gen_69"} \/ (Done /\ ~ClientFailed)
        => (Len(requests) = 1 /\ requests[1] = ExpectedRequest)
    /\ pc \in {"idle", "gen_56", "gen_57", "bp_24", "bp_25", "bp_26", "bp_27",
               "bp_34", "gen_59"} \/ ClientFailed
        => requests = <<>>

\* An invocation with two files, a model and a temperature of the caller's
\* has returned a text.
C6_Witness ==
    /\ Done
    /\ outcome.kind = "returned"
    /\ Len(requests) = 1
    /\ given.model.given
    /\ given.temperature.given
    /\ Len(files) = 2
    /\ system_prompt_text # ""

\* ---------------------------------------------------------------------- C7
\* The response has no output item, or its first output item has no segment.
NothingToExtract(r) == r.output = <<>> \/ r.output[1].content = <<>>

\* C7: when the response has an empty output list, or its first output item
\* has no content segments, the invocation ends in an IndexError that reaches
\* the caller, and no value is returned.
C7_EmptyResponseRaisesIndexError ==
    /\ (Done /\ reply.kind = "response" /\ NothingToExtract(reply.body))
        => (outcome.kind = "raised" /\ outcome.error = "IndexError")
    /\ (reply.kind = "response" /\ NothingToExtract(reply.body))
        => pc \in {"gen_68", "done"}

\* An invocation whose response has a first item without segments has ended.
C7_Witness ==
    /\ Done
    /\ reply.kind = "response"
    /\ Len(reply.body.output) = 2
    /\ reply.body.output[1].content = <<>>

\* ---------------------------------------------------------------------- C8
\* C8: when the request fails, the invocation ends with that same failure
\* delivered to the caller, with no value returned, and no second request
\* is ever issued.
C8_RequestFailureReachesCaller ==
    /\ Len(requests) <= 1
    /\ reply.kind = "error" =>
        /\ Done
        /\ outcome.kind = "raised"
        /\ outcome.error = reply.error
        /\ Len(requests) = 1

\* An invocation whose request failed to authenticate has ended.
C8_Witness ==
    /\ Done
    /\ reply.kind = "error"
    /\ reply.error = "AuthenticationError"
    /\ Len(files) = 1

\* ---------------------------------------------------------------------- C9
\* C9 as stated: when the response has at least one output item whose content
\* has at least one segment, the invocation returns the text of the first
\* segment of the first output item.
C9_SomeItemWithSegmentReturnsFirstText ==
    ( /\ Done
      /\ reply.kind = "response"
      /\ \E i \in 1..Len(reply.body.output) : reply.body.output[i].content # <<>> )
        => /\ outcome.kind = "returned"
           /\ reply.body.output[1].content # <<>>
           /\ outcome.value = reply.body.output[1].content[1].text

\* C9 as amended: when the response's first output item has at least one
\* content segment, the invocation returns exactly the text of that item's
\* first segment, whatever further items or segments the response holds.
C9_FirstItemWithSegmentReturnsFirstText ==
    ( /\ Done
      /\ reply.kind = "response"
      /\ reply.body.output # <<>>
      /\ reply.body.output[1].content # <<>> )
        => outcome = Returned(reply.body.output[1].content[1].text)

\* An invocation whose response holds two items, the first with two segments,
\* has ended.
C9_Witness ==
    /\ Done
    /\ reply.kind = "response"
    /\ Len(reply.body.output) = 2
    /\ Len(reply.body.output[1].content) = 2

\* --------------------------------------------------------------------- C10
\* How an invocation ends, from the service's behaviour alone.
ExpectedOutcome ==
    IF reply.kind = "none" THEN Raised("OpenAIError", 56)
    ELSE IF reply.kind = "error" THEN Raised(reply.error, 59)
    ELSE IF NothingToExtract(reply.body) THEN Raised("IndexError", 68)
    ELSE Returned(reply.body.output[1].content[1].text)

\* What an invocation shows its caller depends on its own arguments and on
\* the service alone, however the invocation before it ended.
OwnArgumentsDecide ==
    /\ Done => outcome = ExpectedOutcome
    /\ \A k \in 1..Len(requests) : requests[k] = ExpectedRequest

\* While a call runs, the arguments it was given stay as they were.
ArgumentsUntouched ==
    pc \notin {"idle", "done"} =>
        /\ files' = files
        /\ folder_name' = folder_name
        /\ system_prompt_text' = system_prompt_text
        /\ given' = given

\* C10: the request and the outcome of each invocation depend only on its own
\* arguments and on the service's answer to it, not on earlier invocations,
\* and the file records passed in are left unchanged.
C10_InvocationsAreIndependent ==
    [](OwnArgumentsDecide) /\ [][ArgumentsUntouched]_vars

\* An invocation that follows a failed one has returned a text for two files,
\* one of them longer than the excerpt.
C10_Witness ==
    /\ Done
    /\ prev.kind = "generate_project_dna"
    /\ prev.outcome = "raised"
    /\ outcome.kind = "returned"
    /\ Len(files) = 2
    /\ files[1].content = Content1001

====
